---- MODULE Spec2Model ----
(***************************************************************************)
(* The /extract-amounts handler of the bill extraction backend             *)
(* (src/swagger.js, lines 87-224): a content-addressed result cache on     *)
(* disk (uploads/<sha256>.png, uploads/<sha256>.json), recognition of the  *)
(* uploaded image, and a fallback loop over Gemini model identifiers.      *)
(* Every request is a process whose steps are the stretches of the handler *)
(* between two awaits; requests interleave at the awaits and share only    *)
(* the uploads directory and the process environment.                      *)
(***************************************************************************)
EXTENDS Integers, Sequences, FiniteSets, TLC

\* ------------------------------------------------------------------ bounds
NumRequests == 2

Requests == 1..NumRequests

\* ------------------------------------------------------- JSON and strings
\* A string is modelled by what the handler can observe of it: whether it is
\* wrapped in a markdown fence, how its JSON is indented, and the document it
\* spells.  A document is a tree; a number token keeps its spelling in a text
\* and is a number (possibly Infinity) in a parsed value.
JNull == [k |-> "null"]

JNum(n) == [k |-> "num", n |-> n]

JStr(s) == [k |-> "str", s |-> s]

JArr(items) == [k |-> "arr", items |-> items]

JObj(fields) == [k |-> "obj", fields |-> fields]

\* A text that is not JSON at all (prose, or the empty string).
Prose(s) == [k |-> "prose", s |-> s]

Text(fence, indent, doc) == [fence |-> fence, indent |-> indent, doc |-> doc]

Plain(s) == Text(FALSE, 0, Prose(s))

\* The value of a local `let x;` that was never assigned.
unassigned == [k |-> "undefined"]

undefined == Text(FALSE, 0, unassigned)

\* JavaScript truthiness of a string-or-undefined local.
Truthy(t) == t # undefined /\ t # Plain("")

\* Number(token): a token beyond the double range reads as Infinity.
ToNumber(tok) == IF tok = "1e999" THEN "Infinity" ELSE tok

RECURSIVE ParseDoc(_)
ParseDoc(d) ==
  CASE d.k = "num" -> JNum(ToNumber(d.n))
    [] d.k = "arr" -> JArr([i \in DOMAIN d.items |-> ParseDoc(d.items[i])])
    [] d.k = "obj" -> JObj([f \in DOMAIN d.fields |-> ParseDoc(d.fields[f])])
    [] OTHER -> d

\* JSON.parse(t) throws a SyntaxError on anything that is not one JSON document.
JSONparseThrows(t) == t.fence \/ t.doc.k \in {"prose", "undefined"}

JSONparse(t) == ParseDoc(t.doc)

RECURSIVE StringifyDoc(_)
StringifyDoc(v) ==
  CASE v.k = "num" -> IF v.n = "Infinity" THEN JNull ELSE JNum(v.n)
    [] v.k = "arr" -> JArr([i \in DOMAIN v.items |-> StringifyDoc(v.items[i])])
    [] v.k = "obj" -> JObj([f \in DOMAIN v.fields |-> StringifyDoc(v.fields[f])])
    [] OTHER -> v

\* JSON.stringify(v, null, indent)
JSONstringify(v, indent) == Text(FALSE, indent, StringifyDoc(v))

\* llmResponse.replace(/```json/g, '').replace(/```/g, '').trim()
clean(t) == [t EXCEPT !.fence = FALSE]

\* --------------------------------------------------------------- uploads
\* req.file as multer leaves it: undefined when the form has no billImage
\* part, otherwise an object holding the bytes (possibly none).
NoFile == [present |-> FALSE, buffer |-> <<>>]

File(bytes) == [present |-> TRUE, buffer |-> bytes]

Images == {<<1>>, <<2>>}

Uploads == {NoFile, File(<<>>)} \cup {File(b) : b \in Images}

\* crypto.createHash('sha256').update(buffer).digest('hex'), first 8 digits.
sha256(bytes) ==
  CASE bytes = <<>> -> "e3b0c442"
    [] bytes = <<1>> -> "4bf5122f"
    [] bytes = <<2>> -> "dbc1b4c9"

Hashes == {sha256(f.buffer) : f \in Uploads \ {NoFile}}

\* ---------------------------------------------------------- files on disk
Absent == [st |-> "absent"]

Truncated == [st |-> "empty"]

Written(data) == [st |-> "full", data |-> data]

\* What a reader gets from a file that exists.
Content(f) == IF f.st = "full" THEN f.data ELSE Plain("")

\* Two writers that opened the same path write from offset 0 into one file:
\* the later write lays its bytes over the earlier one's, and where the two
\* payloads differ the file may end as the later payload or as a mix of both.
Interleaved == Text(FALSE, 2, Prose("interleaved writes"))

Overlay(old, data) ==
  IF old.st = "full" /\ old.data # data
    THEN {Written(data), Written(Interleaved)}
    ELSE {Written(data)}

\* ------------------------------------------------- the external service
defaults ==
  << "gemini-1.5-flash-8b", "gemini-1.5-flash-8b-latest",
     "gemini-1.5-pro", "gemini-1.5-pro-latest" >>

\* process.env.GEMINI_MODEL: unset (or empty), some other identifier, or one
\* of the built-in identifiers.
EnvModels == {"", "tuned-model", "gemini-1.5-pro"}

Amount(type, value, source) ==
  JObj([type |-> JStr(type), value |-> JNum(value), source |-> JStr(source)])

Result(currency, amounts) ==
  JObj([currency |-> JStr(currency), amounts |-> JArr(amounts),
        status |-> JStr("ok")])

AllKinds ==
  Result("USD", << Amount("total_bill", "100", "text: 'Total: $100'"),
                   Amount("paid", "60", "text: 'Paid: $60'"),
                   Amount("due", "40", "text: 'Due: $40'") >>)

NoDue ==
  Result("INR", << Amount("total_bill", "100", "text: 'Total 100'"),
                   Amount("paid", "60", "text: 'Paid 60'") >>)

WithTax ==
  Result("INR", << Amount("total_bill", "100", "text: 'Total 100'"),
                   Amount("tax", "5", "text: 'Tax 5'") >>)

\* What result.response.text() can be: the documented JSON inside a markdown
\* fence, the same kind of JSON bare, JSON of another shape, prose, nothing.
Replies ==
  { Text(TRUE, 2, AllKinds), Text(FALSE, 0, NoDue), Text(FALSE, 0, WithTax),
    Text(FALSE, 0, JNum("1e999")), Plain("Here is the JSON you asked for"),
    Plain("") }

\* What getGenerativeModel / generateContent / text() can throw; status 0 is
\* an error that carries no status.
LlmErrors ==
  { [status |-> 404, statusText |-> "Not Found"],
    [status |-> 429, statusText |-> "Too Many Requests"],
    [status |-> 500, statusText |-> "Internal Server Error"],
    [status |-> 0, statusText |-> ""] }

\* ------------------------------------------------------------- responses
Pending == [status |-> 0, body |-> undefined]

\* res.status(code).send(text)
Send(code, text) == [status |-> code, body |-> Plain(text)]

\* res.status(code).json(value)
Json(code, value) == [status |-> code, body |-> JSONstringify(value, 0)]

NoFileUploaded == Send(400, "No file uploaded.")

FailedToProcess == Send(500, "Failed to process image.")

InvalidFormat == Send(500, "Error: The AI returned an invalid format.")

InitFailed ==
  Json(502, JObj([error |-> JStr("LLM initialization failed. Please verify model access in Google AI Studio and try again.")]))

NoAccessibleModel ==
  Json(404, JObj([error |-> JStr("No accessible Gemini model found for your API key/region. Set GEMINI_MODEL in .env to a model you can access (e.g., gemini-1.5-pro, gemini-1.5-flash-8b) and restart.")]))

RateLimitHint == "Rate limit exceeded. Please retry after some time."

AccessHint == "Check API key and model name or permissions in AI Studio."

LlmCallFailed(status, statusText) ==
  Json(IF status = 429 THEN 429 ELSE 502,
       JObj([error |-> JStr("LLM call failed"),
             status |-> JNum(ToString(status)),
             statusText |-> JStr(statusText),
             hint |-> JStr(IF status = 429 THEN RateLimitHint ELSE AccessHint)]))

\* ----------------------------------------------------------------- state
VARIABLES
  envModel,           \* process.env.GEMINI_MODEL
  imageFile,          \* uploads/<hash>.png, by hash
  jsonFile,           \* uploads/<hash>.json, by hash
  pc,                 \* where each request's handler is suspended
  file,               \* req.file
  earlier,            \* the requests that had been answered when this one arrived
  lookup,             \* what the cache check found at jsonPath
  cachedJson,         \* what fs.readFile(jsonPath) returned
  ocrCount,           \* recognitions the request started
  ocrText,            \* the text worker.recognize returned
  idx,                \* position of the for-of loop over modelCandidates
  calls,              \* the generateContent calls the request made, with how each ended
  llmResponse,
  selectedModelName,
  extractedData,
  puts,               \* the opens and writes the request completed in uploads/
  response            \* what res sent

vars ==
  << envModel, imageFile, jsonFile, pc, file, earlier, lookup, cachedJson,
     ocrCount, ocrText, idx, calls, llmResponse, selectedModelName,
     extractedData, puts, response >>

store == << imageFile, jsonFile >>

locals ==
  << ocrCount, ocrText, idx, calls, llmResponse, selectedModelName, extractedData >>

hash(r) == sha256(file[r].buffer)

\* const modelCandidates = envModel ? [envModel, ...defaults] : defaults;
modelCandidates == IF envModel # "" THEN <<envModel>> \o defaults ELSE defaults

Init ==
  /\ envModel \in EnvModels
  /\ imageFile = [h \in Hashes |-> Absent]
  /\ jsonFile = [h \in Hashes |-> Absent]
  /\ pc = [r \in Requests |-> "idle"]
  /\ file = [r \in Requests |-> NoFile]
  /\ earlier = [r \in Requests |-> {}]
  /\ lookup = [r \in Requests |-> "none"]
  /\ cachedJson = [r \in Requests |-> undefined]
  /\ ocrCount = [r \in Requests |-> 0]
  /\ ocrText = [r \in Requests |-> undefined]
  /\ idx = [r \in Requests |-> 0]
  /\ calls = [r \in Requests |-> <<>>]
  /\ llmResponse = [r \in Requests |-> undefined]
  /\ selectedModelName = [r \in Requests |-> ""]
  /\ extractedData = [r \in Requests |-> unassigned]
  /\ puts = [r \in Requests |-> {}]
  /\ response = [r \in Requests |-> Pending]

\* res.status(..).send/json(..) followed by the handler's return.
Respond(r, resp) ==
  /\ response' = [response EXCEPT ![r] = resp]
  /\ pc' = [pc EXCEPT ![r] = "done"]

\* Lines 87-99: the request arrives; without a file it is answered at once,
\* otherwise the handler hashes the bytes and awaits the read of the cache file.
Receive(r) ==
  /\ pc[r] = "idle"
  /\ \E f \in Uploads :
       /\ file' = [file EXCEPT ![r] = f]
       /\ IF ~f.present
            THEN Respond(r, NoFileUploaded)
            ELSE /\ pc' = [pc EXCEPT ![r] = "readFile"]
                 /\ UNCHANGED response
  /\ earlier' = [earlier EXCEPT ![r] = {q \in Requests : pc[q] = "done"}]
  /\ UNCHANGED << envModel, store, lookup, cachedJson, locals, puts >>

\* What the cache check finds at jsonPath: fs.readFile rejects when the file
\* is missing or cannot be read, and JSON.parse throws on what is not JSON.
Found(f, readable) ==
  CASE f.st = "absent" -> "absent"
    [] f.st # "absent" /\ ~readable -> "unreadable"
    [] f.st # "absent" /\ readable /\ JSONparseThrows(Content(f)) -> "corrupt"
    [] OTHER -> "stored"

\* Mutation: whatever the read returns is taken for a hit, parseable or not.
CacheHit_unparsed(found) == found \in {"stored", "corrupt"}

\* Mutation: the cache check never returns from the inner try.
CacheHit_never(found) == FALSE

\* The inner try of lines 98-101 reaches its return.
CacheHit(found) == found = "stored"

\* Mutation: the cached file is sent as it is, without JSON.parse.
CachedResponse_unparsed(text) == [status |-> 200, body |-> text]

\* return res.status(200).json(JSON.parse(cachedJson));
CachedResponse(text) == Json(200, JSONparse(text))

\* Lines 98-106: fs.readFile(jsonPath) settles.  On a hit the parsed file is
\* the response; otherwise the catch block starts processing the image and
\* awaits sharp.
ReadCache(r) ==
  /\ pc[r] = "readFile"
  /\ \E readable \in BOOLEAN :
       LET f == jsonFile[hash(r)]
           found == Found(f, readable)
           text == IF found \in {"absent", "unreadable"} THEN undefined ELSE Content(f)
       IN  /\ lookup' = [lookup EXCEPT ![r] = found]
           /\ cachedJson' = [cachedJson EXCEPT ![r] = text]
           /\ IF CacheHit(found)
                THEN Respond(r, CachedResponse(text))
                ELSE /\ pc' = [pc EXCEPT ![r] = "recognize"]
                     /\ UNCHANGED response
  /\ UNCHANGED << envModel, store, file, earlier, locals, puts >>

\* const { data: { text: ocrText } } = await worker.recognize(..): the text
\* depends on the image only.
Recognized(bytes) == Plain("text of image " \o ToString(bytes))

\* Mutation: a rejected recognition is swallowed and the handler goes on to
\* the model with no text.
Recognize_swallow(r) ==
  /\ pc[r] = "recognize"
  /\ ocrCount' = [ocrCount EXCEPT ![r] = @ + 1]
  /\ \E recognized \in IF file[r].buffer = <<>> THEN {FALSE} ELSE BOOLEAN,
        initialized \in BOOLEAN :
       /\ ocrText' = [ocrText EXCEPT ![r] =
                        IF recognized THEN Recognized(file[r].buffer) ELSE undefined]
       /\ IF ~initialized
            THEN /\ Respond(r, InitFailed)
                 /\ UNCHANGED << idx, selectedModelName >>
            ELSE /\ selectedModelName' =
                      [selectedModelName EXCEPT ![r] = "models/" \o modelCandidates[1]]
                 /\ idx' = [idx EXCEPT ![r] = 1]
                 /\ pc' = [pc EXCEPT ![r] = "generateContent"]
                 /\ UNCHANGED response
  /\ UNCHANGED << envModel, store, file, earlier, lookup, cachedJson, calls,
                  llmResponse, extractedData, puts >>

\* Lines 106-136 and 169-175: sharp and the Tesseract worker settle.  Any of
\* them rejecting (sharp always does on an empty buffer) lands in the outer
\* catch.  Otherwise the handler builds the candidate list, obtains a model
\* object (502 when getGenerativeModel throws for every candidate; it throws
\* for all of them or for none, the identifiers being non-empty strings),
\* builds the prompt and awaits generateContent for the first candidate.
Recognize(r) ==
  /\ pc[r] = "recognize"
  /\ ocrCount' = [ocrCount EXCEPT ![r] = @ + 1]
  /\ \E recognized \in IF file[r].buffer = <<>> THEN {FALSE} ELSE BOOLEAN,
        initialized \in BOOLEAN :
       CASE ~recognized ->
              /\ Respond(r, FailedToProcess)
              /\ UNCHANGED << ocrText, idx, selectedModelName >>
         [] recognized /\ ~initialized ->
              /\ ocrText' = [ocrText EXCEPT ![r] = Recognized(file[r].buffer)]
              /\ Respond(r, InitFailed)
              /\ UNCHANGED << idx, selectedModelName >>
         [] OTHER ->
              /\ ocrText' = [ocrText EXCEPT ![r] = Recognized(file[r].buffer)]
              /\ selectedModelName' =
                   [selectedModelName EXCEPT ![r] = "models/" \o modelCandidates[1]]
              /\ idx' = [idx EXCEPT ![r] = 1]
              /\ pc' = [pc EXCEPT ![r] = "generateContent"]
              /\ UNCHANGED response
  /\ UNCHANGED << envModel, store, file, earlier, lookup, cachedJson, calls,
                  llmResponse, extractedData, puts >>

\* Mutation: an error without status is taken for a 404.
StatusOf_default404(llmErr) == IF llmErr.status # 0 THEN llmErr.status ELSE 404

\* const status = llmErr?.status || 502;
StatusOf(llmErr) == IF llmErr.status # 0 THEN llmErr.status ELSE 502

\* const statusText = llmErr?.statusText || 'LLM error';
StatusTextOf(llmErr) ==
  IF llmErr.statusText # "" THEN llmErr.statusText ELSE "LLM error"

\* Mutation: a 429 moves on to the next candidate as a 404 does.
TryNextCandidate_also429(status) == status = 404 \/ status = 429

\* if (status === 404) continue;
TryNextCandidate(status) == status = 404

\* Mutation: after a 404 the loop calls the same candidate again.
NextCandidate_same(i) == i

\* for (const name of modelCandidates): the iterator moves to the next entry.
NextCandidate(i) == i + 1

\* Mutation: the catch of lines 209-212 sends its 500 without returning, so
\* the handler goes on to the writes.
AfterLoop_noReturn(r, text) ==
  IF ~Truthy(text)
    THEN /\ Respond(r, NoAccessibleModel)
         /\ UNCHANGED extractedData
    ELSE LET cleanedResponse == clean(text)
         IN  IF JSONparseThrows(cleanedResponse)
               THEN /\ response' = [response EXCEPT ![r] = InvalidFormat]
                    /\ pc' = [pc EXCEPT ![r] = "openImage"]
                    /\ UNCHANGED extractedData
               ELSE /\ extractedData' =
                         [extractedData EXCEPT ![r] = JSONparse(cleanedResponse)]
                    /\ pc' = [pc EXCEPT ![r] = "openImage"]
                    /\ UNCHANGED response

\* Lines 197-215, after the loop: an empty llmResponse is answered 404, a
\* reply that does not parse 500; otherwise the handler keeps the parsed reply
\* and awaits the write of the image.
AfterLoop(r, text) ==
  IF ~Truthy(text)
    THEN /\ Respond(r, NoAccessibleModel)
         /\ UNCHANGED extractedData
    ELSE LET cleanedResponse == clean(text)
         IN  IF JSONparseThrows(cleanedResponse)
               THEN /\ Respond(r, InvalidFormat)
                    /\ UNCHANGED extractedData
               ELSE /\ extractedData' =
                         [extractedData EXCEPT ![r] = JSONparse(cleanedResponse)]
                    /\ pc' = [pc EXCEPT ![r] = "openImage"]
                    /\ UNCHANGED response

\* An entry of the call log: the identifier, the status the call ended with
\* (200 for a reply, 0 for an error without status) and the reply's text.
Call(name, status, text) == [model |-> name, status |-> status, text |-> text]

\* Mutation: line 177 is missing, the identifier used is not recorded.
Succeeded_unrecorded(r, name, text) ==
  /\ llmResponse' = [llmResponse EXCEPT ![r] = text]
  /\ UNCHANGED selectedModelName

\* Lines 176-179: the reply's text and the identifier that produced it.
Succeeded(r, name, text) ==
  /\ llmResponse' = [llmResponse EXCEPT ![r] = text]
  /\ selectedModelName' = [selectedModelName EXCEPT ![r] = name]

\* Lines 172-196: the call for candidate idx settles.  A reply ends the loop;
\* a 404 moves on to the next candidate (or ends the loop after the last);
\* any other error is answered at once.
GenerateContent(r) ==
  /\ pc[r] = "generateContent"
  /\ LET name == modelCandidates[idx[r]]
     IN  \/ \E text \in Replies :
              /\ calls' = [calls EXCEPT ![r] = Append(@, Call(name, 200, text))]
              /\ Succeeded(r, name, text)
              /\ AfterLoop(r, text)
              /\ UNCHANGED idx
         \/ \E llmErr \in LlmErrors :
              LET status == StatusOf(llmErr)
              IN  /\ calls' = [calls EXCEPT ![r] =
                                 Append(@, Call(name, llmErr.status, undefined))]
                  /\ UNCHANGED << llmResponse, selectedModelName >>
                  /\ CASE TryNextCandidate(status) /\ idx[r] < Len(modelCandidates) ->
                            /\ idx' = [idx EXCEPT ![r] = NextCandidate(@)]
                            /\ UNCHANGED << pc, response, extractedData >>
                       [] TryNextCandidate(status) /\ idx[r] >= Len(modelCandidates) ->
                            /\ AfterLoop(r, llmResponse[r])
                            /\ UNCHANGED idx
                       [] OTHER ->
                            /\ Respond(r, LlmCallFailed(status, StatusTextOf(llmErr)))
                            /\ UNCHANGED << idx, extractedData >>
  /\ UNCHANGED << envModel, store, file, earlier, lookup, cachedJson, ocrCount,
                  ocrText, puts >>

\* The outer catch of lines 220-223.
OuterCatch(r) == Respond(r, FailedToProcess)

\* Line 215, fs.writeFile(imagePath, ..): the open creates or truncates the file.
OpenImage(r) ==
  /\ pc[r] = "openImage"
  /\ \E ok \in BOOLEAN :
       IF ok
         THEN /\ imageFile' = [imageFile EXCEPT ![hash(r)] = Truncated]
              /\ puts' = [puts EXCEPT ![r] = @ \cup {"open png"}]
              /\ pc' = [pc EXCEPT ![r] = "writeImage"]
              /\ UNCHANGED response
         ELSE /\ OuterCatch(r)
              /\ UNCHANGED << imageFile, puts >>
  /\ UNCHANGED << envModel, jsonFile, file, earlier, lookup, cachedJson, locals >>

\* Line 215, the write of the bytes; then line 216 starts and awaits its open.
WriteImage(r) ==
  /\ pc[r] = "writeImage"
  /\ \E ok \in BOOLEAN :
       IF ok
         THEN /\ imageFile' \in
                   { [imageFile EXCEPT ![hash(r)] = w] :
                       w \in Overlay(imageFile[hash(r)], Plain(ToString(file[r].buffer))) }
              /\ puts' = [puts EXCEPT ![r] = @ \cup {"write png"}]
              /\ pc' = [pc EXCEPT ![r] = "openJson"]
              /\ UNCHANGED response
         ELSE /\ OuterCatch(r)
              /\ UNCHANGED << imageFile, puts >>
  /\ UNCHANGED << envModel, jsonFile, file, earlier, lookup, cachedJson, locals >>

\* Line 216, fs.writeFile(jsonPath, ..): the open creates or truncates the file.
OpenJson(r) ==
  /\ pc[r] = "openJson"
  /\ \E ok \in BOOLEAN :
       IF ok
         THEN /\ jsonFile' = [jsonFile EXCEPT ![hash(r)] = Truncated]
              /\ puts' = [puts EXCEPT ![r] = @ \cup {"open json"}]
              /\ pc' = [pc EXCEPT ![r] = "writeJson"]
              /\ UNCHANGED response
         ELSE /\ OuterCatch(r)
              /\ UNCHANGED << jsonFile, puts >>
  /\ UNCHANGED << envModel, imageFile, file, earlier, lookup, cachedJson, locals >>

\* Lines 216-218: the write of the pretty-printed result, then the response.
WriteJson(r) ==
  /\ pc[r] = "writeJson"
  /\ \E ok \in BOOLEAN :
       IF ok
         THEN /\ jsonFile' \in
                   { [jsonFile EXCEPT ![hash(r)] = w] :
                       w \in Overlay(jsonFile[hash(r)], JSONstringify(extractedData[r], 2)) }
              /\ puts' = [puts EXCEPT ![r] = @ \cup {"write json"}]
              /\ Respond(r, Json(200, extractedData[r]))
         ELSE /\ OuterCatch(r)
              /\ UNCHANGED << jsonFile, puts >>
  /\ UNCHANGED << envModel, imageFile, file, earlier, lookup, cachedJson, locals >>

Next ==
  \E r \in Requests :
    \/ Receive(r)
    \/ ReadCache(r)
    \/ Recognize(r)
    \/ GenerateContent(r)
    \/ OpenImage(r)
    \/ WriteImage(r)
    \/ OpenJson(r)
    \/ WriteJson(r)

Spec == Init /\ [][Next]_vars

\* ================================================================ claims
Done(r) == pc[r] = "done"

\* The identifiers a request called, in call order.
Attempted(r) == [i \in DOMAIN calls[r] |-> calls[r][i].model]

\* The value a reply spells once its fences are stripped.
Parses(text) == Truthy(text) /\ ~JSONparseThrows(clean(text))

RecognizedKinds == {JStr("total_bill"), JStr("paid"), JStr("due")}

IsString(v) == v.k = "str"

IsEntry(v) ==
  /\ v.k = "obj"
  /\ {"type", "value", "source"} \subseteq DOMAIN v.fields
  /\ v.fields.type \in RecognizedKinds

\* The shape section 3 of the specification gives a StructuredResult.
IsStructuredResult(v) ==
  /\ v.k = "obj"
  /\ {"currency", "amounts", "status"} \subseteq DOMAIN v.fields
  /\ IsString(v.fields.currency)
  /\ v.fields.amounts.k = "arr"
  /\ \A i \in DOMAIN v.fields.amounts.items : IsEntry(v.fields.amounts.items[i])

\* A parsed reply with an amounts entry of a kind other than the three.
HasUnrecognizedKind(v) ==
  /\ v.k = "obj"
  /\ "amounts" \in DOMAIN v.fields
  /\ v.fields.amounts.k = "arr"
  /\ \E i \in DOMAIN v.fields.amounts.items :
       LET e == v.fields.amounts.items[i]
       IN  /\ e.k = "obj"
           /\ "type" \in DOMAIN e.fields
           /\ e.fields.type \notin RecognizedKinds

HasHint(resp, hint) ==
  /\ resp.body.doc.k = "obj"
  /\ "hint" \in DOMAIN resp.body.doc.fields
  /\ resp.body.doc.fields.hint = JStr(hint)

\* The fatal outcomes of lines 189-194.
RateLimitedOutcome(resp) == resp.status = 429 /\ HasHint(resp, RateLimitHint)

OtherFatalOutcome(resp) == resp.status = 502 /\ HasHint(resp, AccessHint)

Success(resp) == resp.status = 200

\* C1: once the external call has succeeded and its reply is a valid
\* StructuredResult, the request ends with that result as a 200 response,
\* whatever happens to the writes of the image and of the result.
C1_StorageFailureNotFatal ==
  \A r \in Requests :
    (Done(r) /\ extractedData[r] # unassigned /\ IsStructuredResult(extractedData[r]))
      => response[r] = Json(200, extractedData[r])

\* C2: a call that ends with status 429 is the last call of its request, and
\* the request is answered 429 with the wait-and-retry hint.
C2_RateLimitShortCircuit ==
  \A r \in Requests :
    \A i \in DOMAIN calls[r] :
      calls[r][i].status = 429
        => /\ i = Len(calls[r])
           /\ Done(r)
           /\ RateLimitedOutcome(response[r])
           /\ response[r] # NoAccessibleModel

\* Candidate 2 or later is rate-limited while candidates remain untried.
C2_Witness ==
  \E r \in Requests :
    /\ Done(r)
    /\ Len(calls[r]) >= 2
    /\ Len(calls[r]) < Len(modelCandidates)
    /\ calls[r][Len(calls[r])].status = 429

\* C3: when candidates 1..k-1 end with 404 and candidate k replies, the reply
\* is candidate k's text, the identifier recorded is candidate k, and the calls
\* made are candidates 1..k of the list, each once and in list order.
C3_CandidateFallback ==
  \A r \in Requests :
    \A k \in DOMAIN calls[r] :
      (calls[r][k].status = 200 /\ \A i \in 1..(k - 1) : calls[r][i].status = 404)
        => /\ llmResponse[r] = calls[r][k].text
           /\ selectedModelName[r] = modelCandidates[k]
           /\ Attempted(r) = SubSeq(modelCandidates, 1, k)

\* The first candidate is not found and the second replies.
C3_Witness ==
  \E r \in Requests :
    /\ Len(calls[r]) = 2
    /\ calls[r][1].status = 404
    /\ calls[r][2].status = 200
    /\ Parses(calls[r][2].text)

\* C4: no identifier is called twice within one request.
C4_EachCandidateOnce ==
  \A r \in Requests :
    \A i, j \in DOMAIN calls[r] :
      i # j => calls[r][i].model # calls[r][j].model

\* C5: a request ends with the no-accessible-model outcome exactly when it
\* called every candidate of the list and every call ended with 404.
C5_NoAccessibleModelOnlyOnExhaustion ==
  \A r \in Requests :
    Done(r) =>
      (response[r] = NoAccessibleModel
         <=> /\ Len(calls[r]) = Len(modelCandidates)
             /\ \A i \in DOMAIN calls[r] : calls[r][i].status = 404)

\* C6: a call that ends with an error other than 404 and 429, a missing status
\* included, is the last call of its request, and the request is answered 502
\* with the access/configuration hint.
C6_OtherFailureFatal ==
  \A r \in Requests :
    \A i \in DOMAIN calls[r] :
      calls[r][i].status \notin {200, 404, 429}
        => /\ i = Len(calls[r])
           /\ Done(r)
           /\ OtherFatalOutcome(response[r])
           /\ response[r] # NoAccessibleModel

\* An error without status on candidate 2 or later while candidates remain.
C6_Witness ==
  \E r \in Requests :
    /\ Done(r)
    /\ Len(calls[r]) >= 2
    /\ Len(calls[r]) < Len(modelCandidates)
    /\ calls[r][Len(calls[r])].status = 0

\* C7: a request whose cache check finds a stored, readable result under its
\* hash answers 200 with that result and does no recognition, no external call
\* and no write.
C7_CacheHitShortCircuit ==
  \A r \in Requests :
    lookup[r] = "stored"
      => /\ Done(r)
         /\ response[r] = Json(200, JSONparse(cachedJson[r]))
         /\ ocrCount[r] = 0
         /\ calls[r] = <<>>
         /\ puts[r] = {}

\* A request is served from a result another request stored.
C7_Witness ==
  \E r \in Requests :
    /\ lookup[r] = "stored"
    /\ Done(r)
    /\ \E q \in Requests \ {r} : "write json" \in puts[q] /\ file[q] = file[r]

\* r2 arrived after r1 was answered, with the same bytes.
Consecutive(r1, r2) ==
  /\ r1 # r2
  /\ r1 \in earlier[r2]
  /\ file[r1].present
  /\ file[r2] = file[r1]

\* No third request for the bytes of r1 ran beside or after r1.
NoOtherCall(r1, r2) ==
  \A q \in Requests \ {r1, r2} :
    file[q] = file[r1] => (pc[q] = "idle" \/ q \in earlier[r1])

\* C8 as stated: of two consecutive calls with the same bytes the second is
\* answered from the cache with the first call's result, and recognition runs
\* at most once in total.
C8_CacheIdempotence ==
  \A r1, r2 \in Requests :
    (Consecutive(r1, r2) /\ Done(r2))
      => /\ ocrCount[r1] + ocrCount[r2] <= 1
         /\ calls[r2] = <<>>
         /\ Success(response[r2])
         /\ response[r2] = response[r1]

\* C8 as amended: the same, provided the first call was answered with a result,
\* the cache file can be read at the second call, and no other request for
\* those bytes ran in between.
C8_CacheIdempotenceAfterSuccess ==
  \A r1, r2 \in Requests :
    (/\ Consecutive(r1, r2)
     /\ Done(r2)
     /\ Success(response[r1])
     /\ lookup[r2] # "unreadable"
     /\ NoOtherCall(r1, r2))
      => /\ ocrCount[r1] + ocrCount[r2] <= 1
         /\ calls[r2] = <<>>
         /\ Success(response[r2])
         /\ response[r2] = response[r1]

\* The second of two consecutive calls is answered after the first computed
\* and stored a result whose stored form differs from the reply's text.
C8_Witness ==
  \E r1, r2 \in Requests :
    /\ Consecutive(r1, r2)
    /\ Done(r2)
    /\ Success(response[r1])
    /\ lookup[r2] = "stored"
    /\ llmResponse[r1] = Text(TRUE, 2, AllKinds)

\* C9: two requests for the same bytes that each wrote a result wrote the same
\* payload (neither found the cache file unreadable).
C9_StoredResultWrittenOnce ==
  \A r1, r2 \in Requests :
    (/\ r1 # r2
     /\ file[r1] = file[r2]
     /\ "write json" \in puts[r1]
     /\ "write json" \in puts[r2]
     /\ lookup[r1] # "unreadable"
     /\ lookup[r2] # "unreadable")
      => JSONstringify(extractedData[r1], 2) = JSONstringify(extractedData[r2], 2)

\* C10: a reply that parses and has an amounts entry of an unrecognized kind
\* is answered 500 (invalid format) and nothing is written for it.
C10_UnrecognizedKindRejected ==
  \A r \in Requests :
    (Parses(llmResponse[r]) /\ HasUnrecognizedKind(JSONparse(clean(llmResponse[r]))))
      => /\ puts[r] = {}
         /\ Done(r) => response[r] = InvalidFormat

\* The value a request answered with 200: the parsed cache file on a hit,
\* the parsed reply otherwise.
Returned(r) == IF lookup[r] = "stored" THEN JSONparse(cachedJson[r]) ELSE extractedData[r]

\* An object with a currency string, an amounts sequence and a status.
HasResultShape(v) ==
  /\ v.k = "obj"
  /\ {"currency", "amounts", "status"} \subseteq DOMAIN v.fields
  /\ IsString(v.fields.currency)
  /\ v.fields.amounts.k = "arr"

\* C11: whatever a request returns with 200 or writes to jsonPath has the
\* shape of a StructuredResult: an object with a currency string, an amounts
\* sequence and a status.
C11_OnlyStructuredResultsPass ==
  \A r \in Requests :
    /\ (Done(r) /\ Success(response[r])) => HasResultShape(Returned(r))
    /\ "write json" \in puts[r] => HasResultShape(extractedData[r])

\* C12: a request without upload or with an upload of no bytes is answered
\* 400 at once: no cache lookup, no recognition, no external call, no write.
C12_EmptyInputRejected ==
  \A r \in Requests :
    (pc[r] # "idle" /\ file[r].buffer = <<>>)
      => /\ Done(r)
         /\ response[r] = NoFileUploaded
         /\ lookup[r] = "none"
         /\ ocrCount[r] = 0
         /\ calls[r] = <<>>
         /\ puts[r] = {}

\* C13: a reply that does not parse once its fences are stripped is the last
\* call of its request; the request is answered 500 (invalid format) after
\* one recognition and writes nothing.
C13_UnparseableReplySurfaced ==
  \A r \in Requests :
    \A k \in DOMAIN calls[r] :
      (calls[r][k].status = 200 /\ JSONparseThrows(clean(calls[r][k].text)))
        => /\ Done(r)
           /\ response[r] = InvalidFormat
           /\ k = Len(calls[r])
           /\ ocrCount[r] = 1
           /\ puts[r] = {}

\* A reply that is a StructuredResult with fewer than the three kinds.
OmitsKinds(text) ==
  /\ Parses(text)
  /\ IsStructuredResult(JSONparse(clean(text)))
  /\ Len(JSONparse(clean(text)).fields.amounts.items) < 3

\* C14: a request whose reply is well formed but omits kinds ends with 200;
\* the amounts it returns and the amounts stored under its hash are the
\* reply's entries, in the reply's order.
C14_MissingKindsAccepted ==
  \A r \in Requests :
    (Done(r) /\ OmitsKinds(llmResponse[r]))
      => /\ Success(response[r])
         /\ response[r].body.doc.k = "obj"
         /\ response[r].body.doc.fields.amounts = llmResponse[r].doc.fields.amounts
         /\ jsonFile[hash(r)] = Written(JSONstringify(JSONparse(clean(llmResponse[r])), 2))

\* The cache check of the request ended without a response.
Missed(r) == lookup[r] \in {"absent", "unreadable", "corrupt"}

\* C15: within a request recognition starts only after the cache check missed;
\* a model is called only after recognition returned its text (so never after
\* a hit or a failed recognition); the reply is parsed only after a call
\* succeeded; and a file is opened or written only after the reply was parsed.
C15_StepOrder ==
  [][\A r \in Requests :
       /\ ocrCount'[r] # ocrCount[r] => Missed(r)
       /\ calls'[r] # calls[r] => (Missed(r) /\ ocrText[r] # undefined)
       /\ extractedData'[r] # extractedData[r]
            => (calls'[r] # <<>> /\ calls'[r][Len(calls'[r])].status = 200)
       /\ puts'[r] # puts[r] => extractedData[r] # unassigned]_vars

\* A request went through every step: miss, recognition, a fallback call,
\* parse, both writes, 200.
C15_Witness ==
  \E r \in Requests :
    /\ Done(r)
    /\ Success(response[r])
    /\ Missed(r)
    /\ Len(calls[r]) >= 2
    /\ "write json" \in puts[r]

\* The steps of a request once it has arrived: each awaited operation settles.
Settle(r) ==
  \/ ReadCache(r)
  \/ Recognize(r)
  \/ GenerateContent(r)
  \/ OpenImage(r)
  \/ WriteImage(r)
  \/ OpenJson(r)
  \/ WriteJson(r)

\* An awaited operation does not stay pending for ever: while some request
\* awaits one, one of them settles.
FairSpec == Spec /\ WF_vars(\E r \in Requests : Settle(r))

\* C16: a request runs recognition at most once, calls at most as many models
\* as the candidate list has entries, sends one response which is never
\* replaced, and, every awaited operation settling, every request that arrived
\* ends with that response.
C16_NoPipelineRetry ==
  /\ [](\A r \in Requests :
          /\ ocrCount[r] <= 1
          /\ Len(calls[r]) <= Len(modelCandidates)
          /\ Done(r) <=> response[r] # Pending)
  /\ [][\A r \in Requests : response[r] # Pending => response'[r] = response[r]]_vars
  /\ <>[](\A r \in Requests : pc[r] = "idle" \/ Done(r))

\* A request called every candidate of a five-entry list and was answered.
C16_Witness ==
  \E r \in Requests :
    /\ Done(r)
    /\ ocrCount[r] = 1
    /\ Len(calls[r]) = Len(modelCandidates)
    /\ Len(modelCandidates) = 5

\* The outcomes before the writes: no input, failed recognition, a fatal
\* external failure, no accessible model, a reply that does not parse.
EndedWithoutResult(r) ==
  \/ response[r] \in {NoFileUploaded, NoAccessibleModel, InvalidFormat}
  \/ RateLimitedOutcome(response[r])
  \/ OtherFatalOutcome(response[r])
  \/ (response[r] = FailedToProcess /\ ocrText[r] = undefined)

\* The requests that opened the file of a kind ("png", "json") under hash h.
Openers(h, kind) ==
  {q \in Requests : file[q].present /\ hash(q) = h /\ ("open " \o kind) \in puts[q]}

\* C17: a request that ended with one of these outcomes opened and wrote no
\* file, and every file in uploads/ was opened by a request for its hash.
C17_FailuresLeaveStoreUnchanged ==
  /\ \A r \in Requests : EndedWithoutResult(r) => puts[r] = {}
  /\ \A h \in Hashes :
       /\ imageFile[h] # Absent => Openers(h, "png") # {}
       /\ jsonFile[h] # Absent => Openers(h, "json") # {}

\* A request ended on a reply that does not parse while the result another
\* request stored under the same hash is still in place.
C17_Witness ==
  \E r \in Requests :
    /\ Done(r)
    /\ response[r] = InvalidFormat
    /\ Len(calls[r]) >= 2
    /\ jsonFile[hash(r)].st = "full"
    /\ imageFile[hash(r)].st = "full"

\* C18: a hash whose .json file holds a stored result has its .png file
\* holding the image.
C18_ResultImpliesImage ==
  \A h \in Hashes :
    (jsonFile[h].st = "full" /\ ~JSONparseThrows(jsonFile[h].data))
      => imageFile[h].st = "full"

\* C19: a cache check that finds the file absent, unreadable or not JSON is
\* not answered from the check: the request goes on to recognition, and no
\* response is sent before recognition ran.
C19_LookupNeverFails ==
  \A r \in Requests :
    Missed(r)
      => \/ pc[r] = "recognize" /\ response[r] = Pending /\ ocrCount[r] = 0
         \/ ocrCount[r] = 1

\* A request read a file another request had only opened, took it for a miss
\* and went the whole way to its own 200.
C19_Witness ==
  \E r \in Requests :
    /\ lookup[r] = "corrupt"
    /\ Done(r)
    /\ Success(response[r])
    /\ {"write png", "write json"} \subseteq puts[r]

====
